---- MODULE Spec2Model ----
(***************************************************************************)
(* A model of the AreaChart and Baseline components of                     *)
(* react-timeseries-charts:                                                *)
(*   - AreaChart.renderPaths / renderAreas: the stacking-offset loop that  *)
(*     turns the rows of a series into (x0, y0, y1) bands;                 *)
(*   - AreaChart.style: the choice and merge of a style variant;           *)
(*   - AreaChart.shouldComponentUpdate and the update lifecycle;           *)
(*   - AreaChart.handleHover / handleHoverLeave / handleClick;             *)
(*   - Baseline.render and the shared baselineDefaultStyle.                *)
(*                                                                         *)
(* JavaScript values are represented as follows.  An object is a function  *)
(* from its own keys to values; a key the object does not have is not in   *)
(* its DOMAIN, and reading it gives undefined.  CSS values are opaque to   *)
(* the code, and are written as the text of their literal ("1", "0.4").    *)
(* Arrays are sequences, so the 0-based index j of the code is j + 1 here. *)
(***************************************************************************)
EXTENDS Integers, Sequences, FiniteSets, TLC

VARIABLES
    config,               \* the props the parent passed for the current element
    props,                \* this.props of the AreaChart instance
    rendered,             \* what the last render() of the instance produced
    defaultStyle,         \* the module-level defaultStyle of AreaChart.tsx
    lastStyle,            \* the last AreaChart.style(column, type) call
    lastEvent,            \* the last DOM event delivered to a path, and its answer
    eventCount,           \* number of DOM events delivered
    callCount,            \* number of callback calls made
    baselineDefaultStyle, \* the shared baselineDefaultStyle of ./style
    lastBaseline          \* the last Baseline.render()

vars == <<config, props, rendered, defaultStyle, lastStyle, lastEvent, eventCount,
          callCount, baselineDefaultStyle, lastBaseline>>

-----------------------------------------------------------------------------
(* Bounds of the model.                                                    *)

MaxRows == 2        \* series.size() ranges over 0 .. MaxRows
MaxPaths == 3       \* columns.up and columns.down hold at most MaxPaths names together
MaxEvents == 3      \* DOM events delivered in one behaviour

-----------------------------------------------------------------------------
(* JavaScript objects.                                                     *)

EmptyObject == [k \in {} |-> ""]

Has(obj, key) == key \in DOMAIN obj

\* JavaScript truthiness of an optional string property: undefined (absent)
\* and the empty string are falsy.
TruthyString(obj, key) == Has(obj, key) /\ obj[key] # ""

\* JavaScript truthiness of an optional boolean property.
TruthyBool(obj, key) == Has(obj, key) /\ obj[key]

\* a !== b on two optional properties holding primitive values.
Differs(a, b, key) ==
    \/ Has(a, key) # Has(b, key)
    \/ Has(a, key) /\ Has(b, key) /\ a[key] # b[key]

\* The keys of b written over those of a, in a fresh object.
Overlay(a, b) ==
    [k \in DOMAIN a \cup DOMAIN b |-> IF k \in DOMAIN b THEN b[k] ELSE a[k]]

Null == "null"

-----------------------------------------------------------------------------
(* The series, the scales and the props of an AreaChart.                   *)

Columns == {"in", "out"}
\* The values a cell of each column may hold.
Values == ("in" :> {-1, 0, 1}) @@ ("out" :> {0, 2})
Rows == {r \in [Columns -> -1 .. 2] : \A c \in Columns : r[c] \in Values[c]}
Types == {"line", "area"}
Variants == {"normal", "highlighted", "selected", "muted"}

\* A TimeSeries: events in time order, each with a timestamp and one value
\* per column.
MkSeries(rows) ==
    [j \in 1 .. Len(rows) |-> [timestamp |-> j, data |-> rows[j]]]

AllSeries ==
    UNION {{MkSeries(rows) : rows \in [1 .. n -> Rows]} : n \in 0 .. MaxRows}

size(series) == Len(series)
at(series, j) == series[j + 1]
get(event, column) == event.data[column]
timestamp(event) == event.timestamp

\* A d3 scale: a linear map of its domain onto its range.  ref is the identity
\* of the scale object, which === compares.
Scale(ref, domain, range) == [ref |-> ref, domain |-> domain, range |-> range]

Apply(scale, v) ==
    scale.range[1] +
        ((v - scale.domain[1]) * (scale.range[2] - scale.range[1]))
            \div (scale.domain[2] - scale.domain[1])

TimeScales == {Scale("t1", <<0, 4>>, <<0, 400>>), Scale("t2", <<0, 4>>, <<0, 800>>)}
YScales == {Scale("y1", <<-5, 5>>, <<100, 0>>), Scale("y2", <<-5, 5>>, <<200, 0>>)}

\* `${scale.domain()}-${scale.range()}`
scaleAsString(scale) == <<scale.domain, scale.range>>

\* The sequences over S of length at most n.
SeqUpTo(S, n) == UNION {[1 .. k -> S] : k \in 0 .. n}

\* The built-in styles of lines 43-56.
DefaultStyleInit ==
    [line |->
        [normal      |-> [stroke |-> "steelblue", fill |-> "none", strokeWidth |-> "1"],
         highlighted |-> [stroke |-> "#5a98cb", fill |-> "none", strokeWidth |-> "1"],
         selected    |-> [stroke |-> "steelblue", fill |-> "none", strokeWidth |-> "1"],
         muted       |-> [stroke |-> "steelblue", fill |-> "none", opacity |-> "0.4",
                          strokeWidth |-> "1"]],
     area |->
        [normal      |-> [fill |-> "steelblue", stroke |-> "none", opacity |-> "0.75"],
         highlighted |-> [fill |-> "#5a98cb", stroke |-> "none", opacity |-> "0.75"],
         selected    |-> [fill |-> "steelblue", stroke |-> "none", opacity |-> "0.75"],
         muted       |-> [fill |-> "steelblue", stroke |-> "none", opacity |-> "0.25"]]]

\* The defaultProps field of the class body.  It is declared without `static`,
\* so it is a field of each instance and not a member of the class.
instanceDefaultProps ==
    [interpolation |-> "curveLinear",
     columns |-> [up |-> <<"value">>, down |-> <<>>],
     stack |-> TRUE]

\* AreaChart.defaultProps, the static member React reads when it creates an
\* element: the class declares none.
staticDefaultProps == EmptyObject

\* React.createElement(type, attrs), given type.defaultProps: a prop the caller
\* leaves out takes its value from the static defaultProps of the class, when
\* that has the key.
createElement(typeDefaultProps, attrs) ==
    [k \in DOMAIN attrs \cup DOMAIN typeDefaultProps |->
        IF Has(attrs, k) THEN attrs[k] ELSE typeDefaultProps[k]]

-----------------------------------------------------------------------------
(* AreaChart.style: the style of one path.                                 *)

\* A caller's style prop: an object (or a Styler) that maps a column name to
\* a style map {line, area}, each a map from a variant to CSS properties.
StyleObject(columnStyles) == [kind |-> "object", columns |-> columnStyles]
StylerObject(columnStyles) == [kind |-> "Styler", columns |-> columnStyles]

\* Styler.areaChartStyle(): the style maps the Styler holds, by column.
areaChartStyle(styler) == styler.columns

\* obj[column] on an object of the caller: undefined when it has no such key.
Lookup(obj, key) ==
    IF Has(obj, key)
        THEN [defined |-> TRUE, map |-> obj[key]]
        ELSE [defined |-> FALSE, map |-> EmptyObject]

providedAreaStyleMap(p, ds, column) ==
    IF Has(p, "style")
        THEN IF p.style.kind = "Styler"
                THEN Lookup(areaChartStyle(p.style), column)
                ELSE Lookup(p.style.columns, column)
        ELSE [defined |-> TRUE, map |-> ds]

\* _.has(obj, key)
has(obj, key) == obj.defined /\ Has(obj.map, key)

\* merge of the "merge" package: a shallow merge of a and b.  result is what
\* the call returns, target is the object a after the call.
\* merge(a, b) without the leading true writes into a itself.
mergeInPlace(a, b) == [result |-> Overlay(a, b), target |-> Overlay(a, b)]

\* merge(true, a, b): the merge is made into a fresh object.
merge(a, b) == [result |-> Overlay(a, b), target |-> a]

isHighlighted(p, column) == TruthyString(p, "highlight") /\ column = p.highlight
isSelected(p, column) == TruthyString(p, "selection") /\ column = p.selection

\* The choice that would test the highlight before the selection.
highlightFirst(p, column) ==
    IF isHighlighted(p, column) THEN "highlighted"
    ELSE IF TruthyString(p, "selection")
        THEN IF isSelected(p, column) THEN "selected" ELSE "muted"
        ELSE "normal"

\* The branch of lines 223-239 that is taken.
variantOf(p, column) ==
    IF TruthyString(p, "selection")
        THEN IF isSelected(p, column) THEN "selected"
             ELSE IF isHighlighted(p, column) THEN "highlighted"
             ELSE "muted"
        ELSE IF isHighlighted(p, column) THEN "highlighted"
             ELSE "normal"

\* The messages if only the sub-key of the resolved type were tested.
errorsOnResolvedTypeOnly(styleMap, type) ==
    IF has(styleMap, type) THEN <<>>
    ELSE IF type = "line" THEN <<"no style for the outline">>
    ELSE <<"no style for the area">>

\* The console.error calls of lines 217-222: both sub-keys are tested, whatever
\* the type being resolved.
consoleErrors(styleMap, type) ==
    (IF ~has(styleMap, "line") THEN <<"no style for the outline">> ELSE <<>>)
    \o (IF ~has(styleMap, "area") THEN <<"no style for the area">> ELSE <<>>)

\* styleMap[type]: undefined when the style map lacks the sub-key, and no
\* object at all when the style map itself is undefined.
subStyle(styleMap, type) ==
    IF has(styleMap, type)
        THEN [defined |-> TRUE, map |-> styleMap.map[type]]
        ELSE [defined |-> FALSE, map |-> EmptyObject]

\* styleMap[type][variant] ? styleMap[type][variant] : {}
callerVariant(sub, variant) ==
    IF Has(sub.map, variant) THEN sub.map[variant] ELSE EmptyObject

\* AreaChart.style(column, type) under props p and module-level defaults ds.
\* Reading a variant of an undefined styleMap[type] throws a TypeError: then
\* nothing is returned and nothing is merged.
style(p, ds, column, type) ==
    LET styleMap == providedAreaStyleMap(p, ds, column)
        errors == consoleErrors(styleMap, type)
        variant == variantOf(p, column)
        sub == subStyle(styleMap, type)
        m == merge(ds[type][variant], callerVariant(sub, variant))
    IN  IF sub.defined
            THEN [variant |-> variant, threw |-> FALSE, errors |-> errors,
                  style |-> m.result,
                  defaults |-> [ds EXCEPT ![type][variant] = m.target]]
            ELSE [variant |-> variant, threw |-> TRUE, errors |-> errors,
                  style |-> EmptyObject, defaults |-> ds]

pathStyle(p, ds, column) == style(p, ds, column, "line")
areaStyle(p, ds, column) == style(p, ds, column, "area")

-----------------------------------------------------------------------------
(* AreaChart.renderPaths, renderAreas and render.                          *)

stack(p) == TruthyBool(p, "stack")

\* dir with the direction not looked at.
dirIgnored(direction) == 1

dir(direction) == IF direction = "up" THEN 1 ELSE -1

\* offsets[j] as line 265 reads it.
bandStart(offsets, j) == offsets[j + 1]

\* Lines 268-270: the offset of row j after a column has been laid out.
nextOffset(p, offset, delta) == IF stack(p) THEN offset + delta ELSE offset

\* The data array of one column (lines 260-271), with the offsets it starts from.
columnData(p, column, direction, offsets) ==
    [j1 \in 1 .. size(p.series) |->
        LET j == j1 - 1
            seriesPoint == at(p.series, j)
        IN  [x0 |-> Apply(p.timeScale, timestamp(seriesPoint)),
             y0 |-> Apply(p.yScale, bandStart(offsets, j)),
             y1 |-> Apply(p.yScale,
                          bandStart(offsets, j) + dir(direction) * get(seriesPoint, column))]]

\* The <g> of one column: its data, the curve of its two paths and their styles.
\* areaStyle is resolved before pathStyle; when it throws, pathStyle is not called.
pathGroup(p, ds, column, i, direction, offsets) ==
    LET a == areaStyle(p, ds, column)
        l == pathStyle(p, ds, column)
    IN  [key |-> i - 1,
         column |-> column,
         data |-> columnData(p, column, direction, offsets),
         curve |-> p.interpolation,
         threw |-> a.threw \/ l.threw,
         errors |-> a.errors \o (IF a.threw THEN <<>> ELSE l.errors),
         style |-> a.style,
         pathStyle |-> l.style]

RECURSIVE renderPathsFrom(_, _, _, _, _, _)
renderPathsFrom(p, ds, columnList, direction, i, offsets) ==
    IF i > Len(columnList) THEN <<>>
    ELSE LET column == columnList[i]
             after == [j1 \in 1 .. size(p.series) |->
                          nextOffset(p, offsets[j1],
                                     dir(direction) * get(at(p.series, j1 - 1), column))]
         IN  <<pathGroup(p, ds, column, i, direction, offsets)>>
                 \o renderPathsFrom(p, ds, columnList, direction, i + 1, after)

\* new Array(size).fill(0), then the map over columnList.
renderPaths(p, ds, columnList, direction) ==
    renderPathsFrom(p, ds, columnList, direction, 1,
                    [j1 \in 1 .. size(p.series) |-> 0])

RECURSIVE errorsUntilThrow(_, _)
errorsUntilThrow(groups, i) ==
    IF i > Len(groups) THEN <<>>
    ELSE IF groups[i].threw THEN groups[i].errors
    ELSE groups[i].errors \o errorsUntilThrow(groups, i + 1)

NotRendered ==
    [mounted |-> FALSE, threw |-> FALSE, errors |-> <<>>, up |-> <<>>, down |-> <<>>]

RECURSIVE offsetsAfter(_, _, _, _, _)
offsetsAfter(p, columnList, direction, i, offsets) ==
    IF i > Len(columnList) THEN offsets
    ELSE offsetsAfter(p, columnList, direction, i + 1,
            [j1 \in 1 .. size(p.series) |->
                nextOffset(p, offsets[j1],
                           dir(direction) * get(at(p.series, j1 - 1), columnList[i]))])

\* renderAreas with one offsets array running through both lists.
renderAreasSharedOffsets(p, ds) ==
    [up |-> renderPaths(p, ds, p.columns.up, "up"),
     down |-> renderPathsFrom(p, ds, p.columns.down, "down", 1,
                 offsetsAfter(p, p.columns.up, "up", 1,
                              [j1 \in 1 .. size(p.series) |-> 0]))]

\* renderAreas(): the up columns, then the down columns, each list laid out
\* by its own renderPaths call.
renderAreas(p, ds) ==
    [up |-> renderPaths(p, ds, p.columns.up, "up"),
     down |-> renderPaths(p, ds, p.columns.down, "down")]

\* render().  A style resolution that throws ends the render with nothing
\* produced.
render(p, ds) ==
    LET areas == renderAreas(p, ds)
        up == areas.up
        down == areas.down
        groups == up \o down
        threw == \E i \in 1 .. Len(groups) : groups[i].threw
    IN  [mounted |-> TRUE,
         threw |-> threw,
         errors |-> errorsUntilThrow(groups, 1),
         up |-> IF threw THEN <<>> ELSE up,
         down |-> IF threw THEN <<>> ELSE down]

-----------------------------------------------------------------------------
(* The band data of a chart: every series, column list and stack setting.  *)

\* The columns prop: the names to lay out upwards and downwards.
ColumnChoices ==
    {c \in [up : SeqUpTo(Columns, MaxPaths), down : SeqUpTo(Columns, MaxPaths)] :
        Len(c.up) + Len(c.down) <= MaxPaths}

\* What a caller passes: series, columns and both scales always, stack or not.
BandConfigs ==
    {[series |-> s, columns |-> c, interpolation |-> "curveLinear",
      timeScale |-> Scale("t1", <<0, 4>>, <<0, 400>>),
      yScale |-> Scale("y1", <<-5, 5>>, <<100, 0>>), width |-> 600] @@ st :
        s \in AllSeries,
        c \in ColumnChoices,
        st \in {EmptyObject} \cup {[stack |-> b] : b \in BOOLEAN}}

NoStyleCall == [called |-> FALSE]
NoEvent == [kind |-> "none"]
NoBaseline == [rendered |-> FALSE]

\* baselineDefaultStyle as ./style exports it.
BaselineDefaultStyleInit ==
    [label |-> [fill |-> "#8B7E7E", fontWeight |-> "100", fontSize |-> "11",
                pointerEvents |-> "none"],
     line |-> [stroke |-> "#626262", strokeWidth |-> "1", strokeDasharray |-> "5,3",
               pointerEvents |-> "none"]]

InitRest ==
    /\ defaultStyle = DefaultStyleInit
    /\ lastStyle = NoStyleCall
    /\ lastEvent = NoEvent
    /\ eventCount = 0
    /\ callCount = 0
    /\ baselineDefaultStyle = BaselineDefaultStyleInit
    /\ lastBaseline = NoBaseline

InitBands ==
    /\ config \in BandConfigs
    /\ props = createElement(staticDefaultProps, config)
    /\ rendered = NotRendered
    /\ InitRest

\* The first render of the mounted instance.
Mount ==
    /\ ~rendered.mounted
    /\ rendered' = render(props, defaultStyle)
    /\ UNCHANGED <<config, props, defaultStyle, lastStyle, lastEvent, eventCount,
                   callCount, baselineDefaultStyle, lastBaseline>>

SpecBands == InitBands /\ [][Mount]_vars

-----------------------------------------------------------------------------
(* Claims about the band data.                                             *)

value(p, j1, column) == p.series[j1].data[column]

\* The sum of the values of row j1 over the first n columns of a list.
RECURSIVE SumBefore(_, _, _, _)
SumBefore(p, j1, columnList, n) ==
    IF n = 0 THEN 0
    ELSE SumBefore(p, j1, columnList, n - 1) + value(p, j1, columnList[n])

Sign(direction) == IF direction = "up" THEN 1 ELSE -1
ListOf(p, direction) == IF direction = "up" THEN p.columns.up ELSE p.columns.down
GroupsOf(r, direction) == IF direction = "up" THEN r.up ELSE r.down
Directions == {"up", "down"}
Shown == rendered.mounted /\ ~rendered.threw

\* C1: for each direction, row j and k-th column of the direction's list, the
\* band is y0 = yScale(off), y1 = yScale(off + dir * value(j, column_k)), with
\* off = dir * (sum of value(j, column_i), i < k) when stack is true and off = 0
\* when stack is false; every data array has series.size() points, in row order.
C1_BandsAreOffsetPlusValue ==
    Shown /\ Has(props, "stack") =>
        \A d \in Directions :
            LET L == ListOf(props, d)
                G == GroupsOf(rendered, d)
            IN  /\ Len(G) = Len(L)
                /\ \A k \in 1 .. Len(L) :
                    /\ G[k].column = L[k]
                    /\ Len(G[k].data) = Len(props.series)
                    /\ \A j1 \in 1 .. Len(props.series) :
                        LET off == IF props.stack
                                     THEN Sign(d) * SumBefore(props, j1, L, k - 1)
                                     ELSE 0
                        IN  /\ G[k].data[j1].y0 = Apply(props.yScale, off)
                            /\ G[k].data[j1].y1 =
                                 Apply(props.yScale, off + Sign(d) * value(props, j1, L[k]))
                            /\ G[k].data[j1].x0 =
                                 Apply(props.timeScale, props.series[j1].timestamp)

C1_Witness ==
    /\ Shown
    /\ Has(props, "stack") /\ props.stack
    /\ props.columns.down = <<"in", "out">>
    /\ Len(props.series) = 2
    /\ value(props, 2, "in") = 1
    /\ value(props, 1, "in") = -1
    /\ rendered.down[2].data[2].y0 = Apply(props.yScale, -1)
    /\ rendered.down[2].data[2].y1 = Apply(props.yScale, -1 - value(props, 2, "out"))
    /\ rendered.down[2].data[1].y0 = Apply(props.yScale, 1)

\* C2: when the caller gives several columns in one direction and does not
\* pass stack, the areas are stacked: the bands of the second and later
\* columns start at the accumulated offset of the earlier ones.
C2_StackedWhenStackNotPassed ==
    Shown /\ ~Has(config, "stack") =>
        \A d \in Directions :
            LET L == ListOf(props, d)
                G == GroupsOf(rendered, d)
            IN  \A k \in 2 .. Len(L) : \A j1 \in 1 .. Len(props.series) :
                    G[k].data[j1].y0 =
                        Apply(props.yScale, Sign(d) * SumBefore(props, j1, L, k - 1))

\* The boundary b with yScale(b) = y.
Unscaled(p, y) == CHOOSE b \in -2 * MaxPaths .. 2 * MaxPaths : Apply(p.yScale, b) = y

NonNegativeRow(p, j1, columnList) ==
    \A k \in 1 .. Len(columnList) : value(p, j1, columnList[k]) >= 0

\* C7: with stack true, in each direction the first column starts at yScale(0)
\* (the down columns too, whatever the up columns are) and the y0 of column
\* k + 1 is the y1 of column k; for non-negative values the unscaled boundaries
\* of up bands are >= 0 and non-decreasing in k, those of down bands <= 0 and
\* non-increasing in k.
C7_StackedBandsAreContiguous ==
    Shown /\ stack(props) =>
        \A d \in Directions :
            LET L == ListOf(props, d)
                G == GroupsOf(rendered, d)
            IN  \A j1 \in 1 .. Len(props.series) :
                    /\ Len(L) > 0 => G[1].data[j1].y0 = Apply(props.yScale, 0)
                    /\ \A k \in 1 .. Len(L) - 1 : G[k + 1].data[j1].y0 = G[k].data[j1].y1
                    /\ NonNegativeRow(props, j1, L) =>
                        \A k \in 1 .. Len(L) :
                            LET b0 == Unscaled(props, G[k].data[j1].y0)
                                b1 == Unscaled(props, G[k].data[j1].y1)
                            IN  /\ Sign(d) * b0 >= 0
                                /\ Sign(d) * b1 >= Sign(d) * b0
                                /\ k < Len(L) =>
                                     Sign(d) * Unscaled(props, G[k + 1].data[j1].y1)
                                        >= Sign(d) * b1

C7_Witness ==
    /\ Shown /\ stack(props)
    /\ props.columns.up = <<"out">>
    /\ props.columns.down = <<"out", "in">>
    /\ Len(props.series) = 2
    /\ value(props, 1, "out") = 2 /\ value(props, 1, "in") = 1
    /\ rendered.down[1].data[1].y0 = Apply(props.yScale, 0)
    /\ rendered.down[2].data[1].y0 = rendered.down[1].data[1].y1
    /\ Unscaled(props, rendered.down[2].data[1].y1) = -3

-----------------------------------------------------------------------------
(* Style resolution: an instance that receives props and resolves styles.  *)

\* The CSS a caller supplies for a variant: it overrides the default fill and
\* adds a key no default has.
CallerCss == {[fill |-> "red", cursor |-> "pointer"]}

\* A caller's {normal, highlighted, selected, muted}: at most one variant given.
VariantMaps ==
    {EmptyObject} \cup {v :> css : v \in Variants, css \in CallerCss}

\* A caller's {line, area}: either sub-key may be missing.
StyleMaps == UNION {[T -> VariantMaps] : T \in SUBSET Types}

StyleProps ==
    {StyleObject(EmptyObject), StylerObject("in" :> [t \in Types |-> EmptyObject])}
        \cup {StyleObject("in" :> m) : m \in StyleMaps}

BaseConfig ==
    [series |-> MkSeries(<<("in" :> 1) @@ ("out" :> 2)>>),
     columns |-> [up |-> <<"in">>, down |-> <<"out">>],
     interpolation |-> "curveLinear",
     timeScale |-> Scale("t1", <<0, 4>>, <<0, 400>>),
     yScale |-> Scale("y1", <<-5, 5>>, <<100, 0>>),
     width |-> 600]

Optional(key, S) == {EmptyObject} \cup {key :> v : v \in S}

StyleConfigs ==
    {BaseConfig @@ st @@ h @@ sel :
        st \in Optional("style", StyleProps),
        h \in Optional("highlight", Columns \cup {""}),
        sel \in Optional("selection", Columns \cup {""})}

InitStyle ==
    /\ config \in StyleConfigs
    /\ props = createElement(staticDefaultProps, config)
    /\ rendered = NotRendered
    /\ InitRest

\* The parent renders the chart with other props: a new render pass begins.
ReceiveStyleProps ==
    \E next \in StyleConfigs :
        /\ config' = next
        /\ props' = createElement(staticDefaultProps, next)
        /\ lastStyle' = NoStyleCall
        /\ UNCHANGED <<rendered, defaultStyle, lastEvent, eventCount, callCount,
                       baselineDefaultStyle, lastBaseline>>

\* One call of this.style(column, type) in the render pass.
ResolveStyle ==
    \E column \in Columns, type \in Types :
        LET r == style(props, defaultStyle, column, type)
        IN  /\ lastStyle' = [called |-> TRUE, column |-> column, type |-> type,
                             variant |-> r.variant, threw |-> r.threw,
                             errors |-> r.errors, style |-> r.style]
            /\ defaultStyle' = r.defaults
            /\ UNCHANGED <<config, props, rendered, lastEvent, eventCount, callCount,
                           baselineDefaultStyle, lastBaseline>>

SpecStyle == InitStyle /\ [][ReceiveStyleProps \/ ResolveStyle]_vars

\* C3: with a selection set, the selected column gets "selected" (also when it
\* is highlighted), another column equal to highlight gets "highlighted" and
\* every other column "muted"; with no selection set, the column equal to
\* highlight gets "highlighted" and every other column "normal".
C3_VariantPriority ==
    lastStyle.called =>
        LET c == lastStyle.column
            selectionSet == Has(props, "selection") /\ props.selection # ""
            highlighted == Has(props, "highlight") /\ props.highlight = c
            expected ==
                IF selectionSet
                    THEN IF props.selection = c THEN "selected"
                         ELSE IF highlighted THEN "highlighted"
                         ELSE "muted"
                    ELSE IF highlighted THEN "highlighted" ELSE "normal"
        IN  /\ lastStyle.variant = expected
            /\ lastStyle.variant = "muted" => selectionSet
            /\ lastStyle.variant = "normal" => ~selectionSet

C3_Witness ==
    /\ lastStyle.called
    /\ Has(props, "selection") /\ props.selection = "in"
    /\ Has(props, "highlight") /\ props.highlight = "in"
    /\ lastStyle.column = "in"
    /\ lastStyle.variant = "selected"

\* The caller's CSS for a column, type and variant; {} when there is none.
CallerStyleFor(p, column, type, variant) ==
    IF Has(p.style.columns, column)
       /\ Has(p.style.columns[column], type)
       /\ Has(p.style.columns[column][type], variant)
        THEN p.style.columns[column][type][variant]
        ELSE EmptyObject

\* C4: a returned style has the caller's value for every key the caller
\* supplies and the built-in default of the variant for every other default
\* key; with no style prop it is the default variant; and the module-level
\* defaultStyle is never changed, so the defaults stay the original ones.
C4_MergeKeepsDefaults ==
    /\ defaultStyle = DefaultStyleInit
    /\ lastStyle.called /\ ~lastStyle.threw =>
        LET d == DefaultStyleInit[lastStyle.type][lastStyle.variant]
            own == IF Has(props, "style")
                     THEN CallerStyleFor(props, lastStyle.column, lastStyle.type,
                                         lastStyle.variant)
                     ELSE EmptyObject
        IN  /\ DOMAIN lastStyle.style = DOMAIN d \cup DOMAIN own
            /\ \A k \in DOMAIN own : lastStyle.style[k] = own[k]
            /\ \A k \in DOMAIN d \ DOMAIN own : lastStyle.style[k] = d[k]
            /\ ~Has(props, "style") => lastStyle.style = d

C4_Witness ==
    /\ lastStyle.called /\ ~lastStyle.threw
    /\ lastStyle.column = "in" /\ lastStyle.type = "line" /\ lastStyle.variant = "muted"
    /\ Has(props, "style")
    /\ CallerStyleFor(props, "in", "line", "muted") = [fill |-> "red", cursor |-> "pointer"]
    /\ lastStyle.style = [stroke |-> "steelblue", fill |-> "red", opacity |-> "0.4",
                          strokeWidth |-> "1", cursor |-> "pointer"]
    /\ defaultStyle.line.muted.fill = "none"

\* The sub-keys the caller's style map for a column lacks.
MissingSubKeys(p, column) == Types \ DOMAIN p.style.columns[column]

\* C5: when the caller's style map for a column lacks "line" or "area", each
\* resolution for the column, of either type, logs one message per missing
\* sub-key; nothing is substituted for the missing sub-key: resolving the
\* missing type returns no style.
C5_OneMessagePerMissingSubKey ==
    lastStyle.called /\ Has(props, "style")
        /\ Has(props.style.columns, lastStyle.column) =>
        LET missing == MissingSubKeys(props, lastStyle.column)
        IN  /\ Len(lastStyle.errors) = Cardinality(missing)
            /\ ("line" \in missing) =
                 (\E i \in 1 .. Len(lastStyle.errors) :
                     lastStyle.errors[i] = "no style for the outline")
            /\ ("area" \in missing) =
                 (\E i \in 1 .. Len(lastStyle.errors) :
                     lastStyle.errors[i] = "no style for the area")
            /\ lastStyle.threw = (lastStyle.type \in missing)
            /\ lastStyle.threw => lastStyle.style = EmptyObject

C5_Witness ==
    /\ lastStyle.called /\ Has(props, "style")
    /\ lastStyle.column = "in" /\ lastStyle.type = "area"
    /\ Has(props.style.columns, "in")
    /\ MissingSubKeys(props, "in") = {"line"}
    /\ lastStyle.errors = <<"no style for the outline">>
    /\ ~lastStyle.threw

-----------------------------------------------------------------------------
(* Hover and click: DOM events on the paths of a mounted chart.            *)

Callbacks == {"onHighlightChange", "onSelectionChange"}

\* What handling one event does: the callback calls made, in order, and
\* whether e.stopPropagation() was called.
handleHover(p, column) ==
    [calls |-> IF Has(p, "onHighlightChange")
                 THEN <<[fn |-> "onHighlightChange", arg |-> column]>>
                 ELSE <<>>,
     stopped |-> FALSE]

handleHoverLeave(p) ==
    [calls |-> IF Has(p, "onHighlightChange")
                 THEN <<[fn |-> "onHighlightChange", arg |-> Null]>>
                 ELSE <<>>,
     stopped |-> FALSE]

\* handleClick if a click reported a highlight as well.
handleClickAlsoHighlights(p, column) ==
    [calls |-> (IF Has(p, "onHighlightChange")
                  THEN <<[fn |-> "onHighlightChange", arg |-> column]>>
                  ELSE <<>>)
               \o (IF Has(p, "onSelectionChange")
                     THEN <<[fn |-> "onSelectionChange", arg |-> column]>>
                     ELSE <<>>),
     stopped |-> TRUE]

handleClick(p, column) ==
    [calls |-> IF Has(p, "onSelectionChange")
                 THEN <<[fn |-> "onSelectionChange", arg |-> column]>>
                 ELSE <<>>,
     stopped |-> TRUE]

EventConfigs ==
    {BaseConfig @@ h @@ sel @@ onH @@ onS :
        h \in Optional("highlight", Columns),
        sel \in Optional("selection", Columns),
        onH \in Optional("onHighlightChange", {"parent.setHighlight"}),
        onS \in Optional("onSelectionChange", {"parent.setSelection"})}

\* The columns that have paths on screen, and the two paths of each.
PathColumns(p) ==
    {p.columns.up[i] : i \in 1 .. Len(p.columns.up)}
        \cup {p.columns.down[i] : i \in 1 .. Len(p.columns.down)}
Paths == {"area", "outline"}

InitEvents ==
    /\ config \in EventConfigs
    /\ props = createElement(staticDefaultProps, config)
    /\ rendered = render(props, DefaultStyleInit)
    /\ InitRest

\* One event delivered to a path of a column, answered by handler result r.
Deliver(kind, column, path, r) ==
    /\ eventCount < MaxEvents
    /\ eventCount' = eventCount + 1
    /\ callCount' = callCount + Len(r.calls)
    /\ lastEvent' = [kind |-> kind, column |-> column, path |-> path,
                     supplied |-> DOMAIN props \cap Callbacks,
                     calls |-> r.calls, stopped |-> r.stopped]
    /\ UNCHANGED <<config, props, rendered, defaultStyle, lastStyle,
                   baselineDefaultStyle, lastBaseline>>

\* onMouseMove={e => this.handleHover(e, column)}
MouseMove ==
    \E column \in PathColumns(props), path \in Paths :
        Deliver("mousemove", column, path, handleHover(props, column))

\* onMouseLeave={() => this.handleHoverLeave()}
MouseLeave ==
    \E column \in PathColumns(props), path \in Paths :
        Deliver("mouseleave", column, path, handleHoverLeave(props))

\* onClick={e => this.handleClick(e, column)}
Click ==
    \E column \in PathColumns(props), path \in Paths :
        Deliver("click", column, path, handleClick(props, column))

\* The parent renders the chart with other props, for instance from a callback.
ParentUpdate ==
    \E next \in EventConfigs :
        /\ config' = next
        /\ props' = createElement(staticDefaultProps, next)
        /\ rendered' = render(props', defaultStyle)
        /\ UNCHANGED <<defaultStyle, lastStyle, lastEvent, eventCount, callCount,
                       baselineDefaultStyle, lastBaseline>>

SpecEvents == InitEvents /\ [][MouseMove \/ MouseLeave \/ Click \/ ParentUpdate]_vars

ExpectedCalls(e) ==
    CASE e.kind = "mousemove" ->
            IF "onHighlightChange" \in e.supplied
                THEN <<[fn |-> "onHighlightChange", arg |-> e.column]>> ELSE <<>>
      [] e.kind = "mouseleave" ->
            IF "onHighlightChange" \in e.supplied
                THEN <<[fn |-> "onHighlightChange", arg |-> Null]>> ELSE <<>>
      [] e.kind = "click" ->
            IF "onSelectionChange" \in e.supplied
                THEN <<[fn |-> "onSelectionChange", arg |-> e.column]>> ELSE <<>>

EventAnswered ==
    lastEvent.kind # "none" =>
        /\ lastEvent.calls = ExpectedCalls(lastEvent)
        /\ lastEvent.stopped = (lastEvent.kind = "click")
        /\ \A i \in 1 .. Len(lastEvent.calls) :
            /\ lastEvent.kind = "click" => lastEvent.calls[i].fn # "onHighlightChange"
            /\ lastEvent.kind # "click" => lastEvent.calls[i].fn # "onSelectionChange"

EventStep ==
    eventCount' # eventCount =>
        /\ eventCount' = eventCount + 1
        /\ callCount' - callCount = Len(lastEvent'.calls)
        /\ callCount' - callCount =
             (IF (IF lastEvent'.kind = "click" THEN "onSelectionChange"
                  ELSE "onHighlightChange") \in DOMAIN props THEN 1 ELSE 0)
        /\ props' = props

\* C6: each mouse-move, mouse-leave or click on a path of column c is answered
\* with exactly one callback call when the callback is supplied and none when
\* it is not: onHighlightChange(c), onHighlightChange(null), and, after
\* stopPropagation, onSelectionChange(c); a mouse event never calls
\* onSelectionChange, a click never onHighlightChange, and handling an event
\* leaves the props, highlight and selection among them, as they were.
C6_EventsCallBackOnce == []EventAnswered /\ [][EventStep]_vars

C6_Witness ==
    /\ eventCount = 3 /\ callCount = 2
    /\ lastEvent.kind = "click" /\ lastEvent.column = "out" /\ lastEvent.path = "outline"
    /\ lastEvent.calls = <<[fn |-> "onSelectionChange", arg |-> "out"]>>
    /\ lastEvent.stopped
    /\ ~Has(props, "selection")

-----------------------------------------------------------------------------
(* The update lifecycle: shouldComponentUpdate decides whether to render.  *)

Undefined == "undefined"

\* JSON.stringify of the columns prop.
stringifyColumns(p) == <<"up", p.columns.up, "down", p.columns.down>>

\* JSON.stringify of the style prop: undefined for no prop; a key whose value
\* is undefined is left out of the text.
stringifyStyle(p) ==
    IF ~Has(p, "style") THEN [defined |-> FALSE]
    ELSE [defined |-> TRUE,
          text |-> [c \in DOMAIN p.style.columns |->
                     [t \in DOMAIN p.style.columns[c] |->
                       [v \in DOMAIN p.style.columns[c][t] |->
                         LET css == p.style.columns[c][t][v]
                         IN  [k \in {x \in DOMAIN css : css[x] # Undefined} |-> css[k]]]]]]

\* TimeSeries.is(a, b) of pondjs: the same events.
TimeSeriesIs(a, b) == a = b

shouldComponentUpdate(p, nextProps) ==
    LET widthChanged == p.width # nextProps.width
        timeScaleChanged == scaleAsString(p.timeScale) # scaleAsString(nextProps.timeScale)
        yAxisScaleChanged == p.yScale # nextProps.yScale
        interpolationChanged == p.interpolation # nextProps.interpolation
        columnsChanged == stringifyColumns(p) # stringifyColumns(nextProps)
        styleChanged == stringifyStyle(p) # stringifyStyle(nextProps)
        highlightChanged == Differs(p, nextProps, "highlight")
        selectionChanged == Differs(p, nextProps, "selection")
        seriesChanged ==
            IF size(p.series) # size(nextProps.series) THEN TRUE
            ELSE ~TimeSeriesIs(p.series, nextProps.series)
    IN  \/ seriesChanged
        \/ timeScaleChanged
        \/ widthChanged
        \/ interpolationChanged
        \/ columnsChanged
        \/ styleChanged
        \/ yAxisScaleChanged
        \/ highlightChanged
        \/ selectionChanged

NoOverrides == [t \in Types |-> EmptyObject]

\* The values each prop takes in the lifecycle model.
UpdateChoices ==
    [series |-> {"series" :> s :
                    s \in {MkSeries(<<("in" :> 1) @@ ("out" :> 2)>>),
                           MkSeries(<<("in" :> 1) @@ ("out" :> 0)>>),
                           MkSeries(<<("in" :> 1) @@ ("out" :> 2),
                                      ("in" :> -1) @@ ("out" :> 0)>>)}},
     columns |-> {"columns" :> c :
                    c \in {[up |-> <<"in", "out">>, down |-> <<>>],
                           [up |-> <<"in">>, down |-> <<"out">>]}},
     stack |-> Optional("stack", BOOLEAN),
     style |-> Optional("style",
                 {StyleObject(("in" :> [NoOverrides EXCEPT !.area = "normal" :> css])
                              @@ ("out" :> NoOverrides)) :
                     css \in {EmptyObject, [fill |-> "red"], [fill |-> Undefined]}}),
     interpolation |-> {"interpolation" :> i : i \in {"curveLinear", "curveBasis"}},
     timeScale |-> {"timeScale" :> t :
                      t \in TimeScales \cup {Scale("t3", <<0, 4>>, <<0, 400>>)}},
     yScale |-> {"yScale" :> y : y \in YScales},
     width |-> {"width" :> w : w \in {600, 800}},
     highlight |-> Optional("highlight", {"in"}),
     selection |-> Optional("selection", {"out"})]

UpdateConfigs ==
    {se @@ co @@ sk @@ sy @@ ip @@ ts @@ ys @@ wi @@ hi @@ sl :
        se \in UpdateChoices.series, co \in UpdateChoices.columns,
        sk \in UpdateChoices.stack, sy \in UpdateChoices.style,
        ip \in UpdateChoices.interpolation, ts \in UpdateChoices.timeScale,
        ys \in UpdateChoices.yScale, wi \in UpdateChoices.width,
        hi \in UpdateChoices.highlight, sl \in UpdateChoices.selection}

Without(obj, key) == [k \in DOMAIN obj \ {key} |-> obj[k]]

InitUpdate ==
    /\ config \in UpdateConfigs
    /\ props = createElement(staticDefaultProps, config)
    /\ rendered = NotRendered
    /\ InitRest

\* The parent renders the chart again with one prop changed.  React asks
\* shouldComponentUpdate(nextProps), makes nextProps this.props, and calls
\* render() only when the answer was true.
Update ==
    /\ rendered.mounted
    /\ \E key \in DOMAIN UpdateChoices : \E part \in UpdateChoices[key] :
        LET next == part @@ Without(config, key)
            nextProps == createElement(staticDefaultProps, next)
        IN  /\ config' = next
            /\ props' = nextProps
            /\ rendered' = IF shouldComponentUpdate(props, nextProps)
                             THEN render(nextProps, defaultStyle)
                             ELSE rendered
    /\ UNCHANGED <<defaultStyle, lastStyle, lastEvent, eventCount, callCount,
                   baselineDefaultStyle, lastBaseline>>

SpecUpdate == InitUpdate /\ [][Mount \/ Update]_vars

\* C8: the displayed chart is never stale: what is on screen is what render()
\* yields under the current props, whatever sequence of prop updates led there.
C8_NeverStale ==
    rendered.mounted => rendered = render(props, defaultStyle)

-----------------------------------------------------------------------------
(* Baseline.render and the shared baselineDefaultStyle.                    *)

\* _.merge(a, b) of lodash: b's keys are written into a, and a is returned.
lodashMerge(a, b) == [result |-> Overlay(a, b), target |-> Overlay(a, b)]

\* Baseline.defaultProps, a static member.  Its style is the shared
\* baselineDefaultStyle object itself, written here as a reference to it.
BaselineDefaultProps ==
    [value |-> 0, label |-> "", position |-> "left", style |-> [shared |-> TRUE]]

\* A style object of the caller's own.
OwnStyle(obj) == [shared |-> FALSE, obj |-> obj]

BaselineConfigs ==
    {[width |-> 600] @@ va @@ ys @@ po @@ st :
        va \in Optional("value", {2}),
        ys \in Optional("yScale", {Scale("y1", <<-5, 5>>, <<100, 0>>)}),
        po \in Optional("position", {"right"}),
        st \in Optional("style",
                {OwnStyle(la @@ li) :
                    la \in Optional("label", {[fill |-> "red"], [fontSize |-> "14"]}),
                    li \in Optional("line", {[stroke |-> "red"], [strokeWidth |-> "2"]})})}

\* this.props.style.label ? this.props.style.label : {}
styleOrEmpty(bp, bds, key) ==
    LET obj == IF bp.style.shared THEN bds ELSE bp.style.obj
    IN  IF Has(obj, key) THEN obj[key] ELSE EmptyObject

\* Baseline.prototype.render under props bp and shared defaults bds: what it
\* returns, and the shared defaults after it.
baselineRender(bp, bds) ==
    IF ~Has(bp, "yScale") \/ ~Has(bp, "value")
        THEN [out |-> [rendered |-> TRUE, null |-> TRUE], defaults |-> bds]
        ELSE LET y == Apply(bp.yScale, bp.value)
                 labelMerge == lodashMerge(bds.label, styleOrEmpty(bp, bds, "label"))
                 lineMerge == lodashMerge(bds.line, styleOrEmpty(bp, bds, "line"))
             IN  [out |-> [rendered |-> TRUE, null |-> FALSE,
                           transform |-> <<0, y>>,
                           points |-> <<0, 0, bp.width, 0>>,
                           textAnchor |-> IF bp.position = "right" THEN "end" ELSE "start",
                           textPositionX |-> IF bp.position = "right"
                                               THEN bp.width - 5 ELSE 5,
                           shared |-> bp.style.shared,
                           lineStyle |-> lineMerge.result,
                           labelStyle |-> labelMerge.result],
                  defaults |-> [label |-> labelMerge.target, line |-> lineMerge.target]]

InitBaseline ==
    /\ config = BaseConfig
    /\ props = createElement(staticDefaultProps, config)
    /\ rendered = NotRendered
    /\ InitRest

\* Some Baseline of the page renders.
RenderBaseline ==
    \E attrs \in BaselineConfigs :
        LET r == baselineRender(createElement(BaselineDefaultProps, attrs),
                                baselineDefaultStyle)
        IN  /\ lastBaseline' = r.out
            /\ baselineDefaultStyle' = r.defaults
            /\ UNCHANGED <<config, props, rendered, defaultStyle, lastStyle, lastEvent,
                           eventCount, callCount>>

SpecBaseline == InitBaseline /\ [][RenderBaseline]_vars

\* C9: the shared baselineDefaultStyle is never changed by a render, so a
\* Baseline rendered with the default style gets the original default line
\* and label styles.
C9_BaselineDefaultsUnchanged ==
    /\ baselineDefaultStyle = BaselineDefaultStyleInit
    /\ lastBaseline.rendered /\ ~lastBaseline.null /\ lastBaseline.shared =>
        /\ lastBaseline.labelStyle = BaselineDefaultStyleInit.label
        /\ lastBaseline.lineStyle = BaselineDefaultStyleInit.line

====
